---- MODULE Spec2Model ----
(***************************************************************************)
(* PhishingDetector (src/phishing_detector.py): the three analyzers and    *)
(* analyze_message, as operators over the detector's rule tables, and a    *)
(* caller that invokes the four public methods on one detector.            *)
(*                                                                         *)
(* A Python str is a sequence of one-character strings.  A score is an     *)
(* integer number of tenths (0.4 is 4): every weight in the source is a    *)
(* one-decimal literal, and for the scores of up to three urls, keyword    *)
(* sums up to 1.2 and every header score, the double-precision total lies  *)
(* on the same side of 0.4, 0.7 and 1.0 as the decimal total, so the       *)
(* comparisons against the thresholds agree.                               *)
(***************************************************************************)
EXTENDS Integers, Sequences, FiniteSets, TLC

----------------------------------------------------------------------------
(* Characters and str methods                                              *)

Digits == {"0", "1", "2", "3", "4", "5", "6", "7", "8", "9"}

LowerLetters ==
  {"a", "b", "c", "d", "e", "f", "g", "h", "i", "j", "k", "l", "m",
   "n", "o", "p", "q", "r", "s", "t", "u", "v", "w", "x", "y", "z"}

UpperLetters ==
  {"A", "B", "C", "D", "E", "F", "G", "H", "I", "J", "K", "L", "M",
   "N", "O", "P", "Q", "R", "S", "T", "U", "V", "W", "X", "Y", "Z"}

\* str.lower() on one character
lower_map ==
  ("A" :> "a") @@ ("B" :> "b") @@ ("C" :> "c") @@ ("D" :> "d") @@
  ("E" :> "e") @@ ("F" :> "f") @@ ("G" :> "g") @@ ("H" :> "h") @@
  ("I" :> "i") @@ ("J" :> "j") @@ ("K" :> "k") @@ ("L" :> "l") @@
  ("M" :> "m") @@ ("N" :> "n") @@ ("O" :> "o") @@ ("P" :> "p") @@
  ("Q" :> "q") @@ ("R" :> "r") @@ ("S" :> "s") @@ ("T" :> "t") @@
  ("U" :> "u") @@ ("V" :> "v") @@ ("W" :> "w") @@ ("X" :> "x") @@
  ("Y" :> "y") @@ ("Z" :> "z")

lower_char(c) ==
  IF c \in UpperLetters THEN lower_map[c] ELSE c

\* str.lower()
lower(s) ==
  [i \in 1..Len(s) |-> lower_char(s[i])]

\* str.endswith(suffix)
endswith(s, suffix) ==
  /\ Len(suffix) <= Len(s)
  /\ SubSeq(s, Len(s) - Len(suffix) + 1, Len(s)) = suffix

\* the `in` operator on two strings: sub occurs in s
contains(s, sub) ==
  \E i \in 1..(Len(s) - Len(sub) + 1) : SubSeq(s, i, i + Len(sub) - 1) = sub

\* str.count(c) for a one-character c
count(s, c) ==
  Cardinality({i \in 1..Len(s) : s[i] = c})

\* s.split('@')[-1]: what follows the last '@', the whole of s when it has none
RECURSIVE split_last(_, _)
split_last(s, sep) ==
  IF s = <<>> \/ s[Len(s)] = sep
  THEN <<>>
  ELSE Append(split_last(SubSeq(s, 1, Len(s) - 1), sep), s[Len(s)])

----------------------------------------------------------------------------
(* Rule tables set by __init__                                             *)

\* self.suspicious_keywords, in definition order; score in tenths
suspicious_keywords ==
  << [keyword |-> <<"u", "r", "g", "e", "n", "t">>, score |-> 3],
     [keyword |-> <<"a", "c", "c", "o", "u", "n", "t", " ", "s", "u", "s", "p", "e", "n", "d", "e", "d">>, score |-> 4],
     [keyword |-> <<"v", "e", "r", "i", "f", "y", " ", "y", "o", "u", "r", " ", "a", "c", "c", "o", "u", "n", "t">>, score |-> 4],
     [keyword |-> <<"l", "o", "g", "i", "n", " ", "a", "t", "t", "e", "m", "p", "t">>, score |-> 3],
     [keyword |-> <<"u", "n", "u", "s", "u", "a", "l", " ", "a", "c", "t", "i", "v", "i", "t", "y">>, score |-> 3],
     [keyword |-> <<"p", "a", "s", "s", "w", "o", "r", "d", " ", "e", "x", "p", "i", "r", "e", "d">>, score |-> 4],
     [keyword |-> <<"s", "e", "c", "u", "r", "i", "t", "y", " ", "a", "l", "e", "r", "t">>, score |-> 3],
     [keyword |-> <<"c", "l", "i", "c", "k", " ", "h", "e", "r", "e">>, score |-> 2],
     [keyword |-> <<"c", "o", "n", "f", "i", "r", "m", " ", "i", "d", "e", "n", "t", "i", "t", "y">>, score |-> 4],
     [keyword |-> <<"u", "n", "u", "s", "u", "a", "l", " ", "l", "o", "g", "i", "n">>, score |-> 3],
     [keyword |-> <<"l", "i", "m", "i", "t", "e", "d", " ", "t", "i", "m", "e">>, score |-> 2],
     [keyword |-> <<"a", "c", "c", "o", "u", "n", "t", " ", "c", "l", "o", "s", "u", "r", "e">>, score |-> 4],
     [keyword |-> <<"s", "u", "s", "p", "i", "c", "i", "o", "u", "s", " ", "a", "c", "t", "i", "v", "i", "t", "y">>, score |-> 4],
     [keyword |-> <<"e", "x", "t", "e", "r", "n", "a", "l", " ", "p", "a", "y", "m", "e", "n", "t">>, score |-> 8],
     [keyword |-> <<"p", "a", "y", "p", "a", "l", " ", "o", "n", "l", "y">>, score |-> 7],
     [keyword |-> <<"w", "e", "s", "t", "e", "r", "n", " ", "u", "n", "i", "o", "n">>, score |-> 8],
     [keyword |-> <<"d", "i", "r", "e", "c", "t", " ", "p", "a", "y", "m", "e", "n", "t">>, score |-> 7],
     [keyword |-> <<"c", "o", "n", "t", "a", "c", "t", " ", "o", "u", "t", "s", "i", "d", "e">>, score |-> 6],
     [keyword |-> <<"w", "h", "a", "t", "s", "a", "p", "p">>, score |-> 5],
     [keyword |-> <<"t", "e", "l", "e", "g", "r", "a", "m">>, score |-> 5],
     [keyword |-> <<"b", "o", "n", "u", "s", " ", "o", "f", "f", "e", "r">>, score |-> 4],
     [keyword |-> <<"s", "p", "e", "c", "i", "a", "l", " ", "p", "r", "o", "m", "o", "t", "i", "o", "n">>, score |-> 4],
     [keyword |-> <<"f", "i", "v", "e", "r", "r", " ", "s", "u", "p", "p", "o", "r", "t", " ", "t", "e", "a", "m">>, score |-> 5],
     [keyword |-> <<"a", "c", "c", "o", "u", "n", "t", " ", "v", "e", "r", "i", "f", "i", "c", "a", "t", "i", "o", "n", " ", "r", "e", "q", "u", "i", "r", "e", "d">>, score |-> 6],
     [keyword |-> <<"o", "r", "d", "e", "r", " ", "c", "o", "m", "p", "l", "e", "t", "e", "d">>, score |-> 4],
     [keyword |-> <<"p", "a", "y", "m", "e", "n", "t", " ", "p", "e", "n", "d", "i", "n", "g">>, score |-> 4],
     [keyword |-> <<"u", "r", "g", "e", "n", "t", " ", "p", "a", "y", "m", "e", "n", "t">>, score |-> 6],
     [keyword |-> <<"r", "e", "f", "u", "n", "d", " ", "p", "r", "o", "c", "e", "s", "s", "i", "n", "g">>, score |-> 5],
     [keyword |-> <<"a", "d", "d", "i", "t", "i", "o", "n", "a", "l", " ", "f", "e", "e">>, score |-> 5],
     [keyword |-> <<"c", "r", "y", "p", "t", "o", "c", "u", "r", "r", "e", "n", "c", "y">>, score |-> 7],
     [keyword |-> <<"b", "i", "t", "c", "o", "i", "n", " ", "p", "a", "y", "m", "e", "n", "t">>, score |-> 8],
     [keyword |-> <<"p", "r", "i", "v", "a", "t", "e", " ", "e", "m", "a", "i", "l">>, score |-> 6],
     [keyword |-> <<"s", "k", "y", "p", "e", " ", "c", "h", "a", "t">>, score |-> 5] >>

\* self.suspicious_tlds
suspicious_tlds ==
  << <<".", "t", "k">>,
     <<".", "m", "l">>,
     <<".", "g", "a">>,
     <<".", "c", "f">>,
     <<".", "g", "q">>,
     <<".", "z", "i", "p">>,
     <<".", "r", "e", "v", "i", "e", "w">>,
     <<".", "c", "o", "u", "n", "t", "r", "y">>,
     <<".", "k", "i", "m">>,
     <<".", "s", "c", "i", "e", "n", "c", "e">>,
     <<".", "w", "o", "r", "k">>,
     <<".", "p", "a", "r", "t", "y">>,
     <<".", "g", "d", "n">>,
     <<".", "s", "t", "r", "e", "a", "m">>,
     <<".", "d", "o", "w", "n", "l", "o", "a", "d">> >>

\* regular-expression items: a character class with a repetition count;
\* the patterns are compiled with re.I, so classes hold lower-case letters
\* and are tested against the lower-cased subject character
One(cls) == [cs |-> cls, lo |-> 1, many |-> FALSE]

Opt(cls) == [cs |-> cls, lo |-> 0, many |-> FALSE]

AtLeast(cls, n) == [cs |-> cls, lo |-> n, many |-> TRUE]

Lits(str) == [i \in 1..Len(str) |-> One({str[i]})]

Alnum == LowerLetters \cup Digits

\* self.suspicious_sender_patterns
suspicious_sender_patterns ==
  << [source |-> "^\\d+@", anchored |-> TRUE,
      elems |-> <<AtLeast(Digits, 1)>> \o Lits(<<"@">>)],
     [source |-> "[a-zA-Z0-9]+\\d{4,}@", anchored |-> FALSE,
      elems |-> <<AtLeast(Alnum, 1)>> \o <<AtLeast(Digits, 4)>> \o Lits(<<"@">>)],
     [source |-> "security[_-]?alert", anchored |-> FALSE,
      elems |-> Lits(<<"s", "e", "c", "u", "r", "i", "t", "y">>) \o <<Opt({"_", "-"})>> \o Lits(<<"a", "l", "e", "r", "t">>)],
     [source |-> "account[_-]?verify", anchored |-> FALSE,
      elems |-> Lits(<<"a", "c", "c", "o", "u", "n", "t">>) \o <<Opt({"_", "-"})>> \o Lits(<<"v", "e", "r", "i", "f", "y">>)],
     [source |-> "support[_-]?\\d+", anchored |-> FALSE,
      elems |-> Lits(<<"s", "u", "p", "p", "o", "r", "t">>) \o <<Opt({"_", "-"})>> \o <<AtLeast(Digits, 1)>>],
     [source |-> "fiverr[._-]?support\\d*@", anchored |-> FALSE,
      elems |-> Lits(<<"f", "i", "v", "e", "r", "r">>) \o <<Opt({".", "_", "-"})>> \o Lits(<<"s", "u", "p", "p", "o", "r", "t">>) \o <<AtLeast(Digits, 0)>> \o Lits(<<"@">>)],
     [source |-> "fiverr[._-]?security@", anchored |-> FALSE,
      elems |-> Lits(<<"f", "i", "v", "e", "r", "r">>) \o <<Opt({".", "_", "-"})>> \o Lits(<<"s", "e", "c", "u", "r", "i", "t", "y", "@">>)],
     [source |-> "fiverr[._-]?payment@", anchored |-> FALSE,
      elems |-> Lits(<<"f", "i", "v", "e", "r", "r">>) \o <<Opt({".", "_", "-"})>> \o Lits(<<"p", "a", "y", "m", "e", "n", "t", "@">>)],
     [source |-> "fiverr[._-]?verify@", anchored |-> FALSE,
      elems |-> Lits(<<"f", "i", "v", "e", "r", "r">>) \o <<Opt({".", "_", "-"})>> \o Lits(<<"v", "e", "r", "i", "f", "y", "@">>)],
     [source |-> "fiverr[._-]?team@", anchored |-> FALSE,
      elems |-> Lits(<<"f", "i", "v", "e", "r", "r">>) \o <<Opt({".", "_", "-"})>> \o Lits(<<"t", "e", "a", "m", "@">>)],
     [source |-> "admin[._-]?fiverr@", anchored |-> FALSE,
      elems |-> Lits(<<"a", "d", "m", "i", "n">>) \o <<Opt({".", "_", "-"})>> \o Lits(<<"f", "i", "v", "e", "r", "r", "@">>)],
     [source |-> "support[._-]?team[._-]?\\d*@", anchored |-> FALSE,
      elems |-> Lits(<<"s", "u", "p", "p", "o", "r", "t">>) \o <<Opt({".", "_", "-"})>> \o Lits(<<"t", "e", "a", "m">>) \o <<Opt({".", "_", "-"})>> \o <<AtLeast(Digits, 0)>> \o Lits(<<"@">>)],
     [source |-> "verification[._-]?team@", anchored |-> FALSE,
      elems |-> Lits(<<"v", "e", "r", "i", "f", "i", "c", "a", "t", "i", "o", "n">>) \o <<Opt({".", "_", "-"})>> \o Lits(<<"t", "e", "a", "m", "@">>)],
     [source |-> "payment[._-]?support@", anchored |-> FALSE,
      elems |-> Lits(<<"p", "a", "y", "m", "e", "n", "t">>) \o <<Opt({".", "_", "-"})>> \o Lits(<<"s", "u", "p", "p", "o", "r", "t", "@">>)],
     [source |-> "account[._-]?security@", anchored |-> FALSE,
      elems |-> Lits(<<"a", "c", "c", "o", "u", "n", "t">>) \o <<Opt({".", "_", "-"})>> \o Lits(<<"s", "e", "c", "u", "r", "i", "t", "y", "@">>)] >>

----------------------------------------------------------------------------
(* re: the subset of the regular-expression language the source uses       *)

\* items[k..] match s from index i on; with to_end the match must stop at
\* the end of s (a trailing `$`, the subject holding no newline)
RECURSIVE re_match_at(_, _, _, _, _)
re_match_at(items, k, s, i, to_end) ==
  IF k > Len(items)
  THEN (to_end => i = Len(s) + 1)
  ELSE LET it == items[k]
       IN IF it.lo = 1 /\ ~it.many
          THEN /\ i <= Len(s)
               /\ s[i] \in it.cs
               /\ re_match_at(items, k + 1, s, i + 1, to_end)
          ELSE \E n \in it.lo..(IF it.many THEN Len(s) - i + 1 ELSE 1) :
                 /\ i + n - 1 <= Len(s)
                 /\ \A j \in i..(i + n - 1) : s[j] \in it.cs
                 /\ re_match_at(items, k + 1, s, i + n, to_end)

\* re.search(pattern, s, re.I)
re_search(pattern, s) ==
  LET t == lower(s)
  IN \E i \in 1..(IF pattern.anchored THEN 1 ELSE Len(s) + 1) :
       re_match_at(pattern.elems, 1, t, i, FALSE)

\* re.match(r'^\d+\.\d+\.\d+\.\d+$', netloc)
ip_match(netloc) ==
  re_match_at(<<AtLeast(Digits, 1), One({"."}), AtLeast(Digits, 1), One({"."}),
                AtLeast(Digits, 1), One({"."}), AtLeast(Digits, 1)>>,
              1, netloc, 1, TRUE)

\* the class of url_pattern: [a-zA-Z] | [0-9] | [$-_@.&+] | [!*\\(\\),];
\* the range $-_ runs from code 36 to code 95, so it holds '%' and the
\* alternative %XX adds no string
url_chars ==
  LowerLetters \cup UpperLetters \cup Digits \cup
  {"$", "%", "&", "'", "(", ")", "*", "+", ",", "-", ".", "/", ":", ";",
   "<", "=", ">", "?", "@", "[", "\\", "]", "^", "_", "!"}

\* the index after `http[s]?://` when it matches at i, else 0
scheme_end(text, i) ==
  LET has(j, c) == j <= Len(text) /\ text[j] = c
  IN IF has(i, "h") /\ has(i + 1, "t") /\ has(i + 2, "t") /\ has(i + 3, "p")
     THEN IF has(i + 4, "s") /\ has(i + 5, ":") /\ has(i + 6, "/") /\ has(i + 7, "/")
          THEN i + 8
          ELSE IF has(i + 4, ":") /\ has(i + 5, "/") /\ has(i + 6, "/")
               THEN i + 7
               ELSE 0
     ELSE 0

\* the greedy `(...)+`: the first index from j on that holds no url character
RECURSIVE run_end(_, _)
run_end(text, j) ==
  IF j <= Len(text) /\ text[j] \in url_chars THEN run_end(text, j + 1) ELSE j

\* re.findall(url_pattern, text[i..]): leftmost, non-overlapping matches
RECURSIVE findall(_, _)
findall(text, i) ==
  IF i > Len(text)
  THEN <<>>
  ELSE LET s == scheme_end(text, i)
           e == IF s > 0 THEN run_end(text, s) ELSE 0
       IN IF s > 0 /\ e > s
          THEN <<SubSeq(text, i, e - 1)>> \o findall(text, e)
          ELSE findall(text, i + 1)

\* the first index from j on that holds '/', '?' or '#', else Len(url) + 1
RECURSIVE netloc_end(_, _)
netloc_end(url, j) ==
  IF j <= Len(url) /\ url[j] \notin {"/", "?", "#"} THEN netloc_end(url, j + 1) ELSE j

\* urllib.parse.urlparse(url) for a url that findall returned: the netloc
\* runs from after `//` to the first of '/', '?', '#'; a netloc holding one
\* of '[' and ']' without the other raises ValueError
urlparse(url) ==
  LET s == scheme_end(url, 1)
      netloc == SubSeq(url, s, netloc_end(url, s) - 1)
      open == \E j \in 1..Len(netloc) : netloc[j] = "["
      close == \E j \in 1..Len(netloc) : netloc[j] = "]"
  IN [raised |-> (open /\ ~close) \/ (close /\ ~open), netloc |-> netloc]

----------------------------------------------------------------------------
(* analyze_urls                                                            *)

\* a human-readable reason: a fixed text and the interpolated value, held
\* as a sequence (empty when the text has no placeholder)
Reason(text, arg) == [text |-> text, arg |-> arg]

\* risk_score += w; reasons.append(text)
bump(acc, w, text, arg) ==
  [risk_score |-> acc.risk_score + w,
   reasons |-> Append(acc.reasons, Reason(text, arg))]

\* for tld in self.suspicious_tlds: if domain.endswith(tld): ...
RECURSIVE tld_loop(_, _, _, _)
tld_loop(tlds, k, domain, acc) ==
  IF k > Len(tlds)
  THEN acc
  ELSE tld_loop(tlds, k + 1, domain,
                IF endswith(domain, tlds[k])
                THEN bump(acc, 4, "Suspicious TLD: ", tlds[k])
                ELSE acc)

\* url_finding with the subdomain check made an `elif` of the IP check
url_finding_elif(self, url, netloc) ==
  LET a0 == [risk_score |-> 0, reasons |-> <<>>]
      a1 == tld_loop(self.suspicious_tlds, 1, lower(netloc), a0)
      a3 == IF ip_match(netloc)
            THEN bump(a1, 5, "IP address used instead of domain name", <<>>)
            ELSE IF count(netloc, ".") > 2
                 THEN bump(a1, 3, "Multiple subdomains detected", <<>>)
                 ELSE a1
      a4 == IF \E j \in 1..Len(url) : url[j] = "%"
            THEN bump(a3, 3, "URL contains encoded characters", <<>>)
            ELSE a3
  IN [url |-> url, risk_score |-> a4.risk_score, reasons |-> a4.reasons]

\* the body of `for url in urls`, after urlparse returned netloc
url_finding(self, url, netloc) ==
  LET a0 == [risk_score |-> 0, reasons |-> <<>>]
      a1 == tld_loop(self.suspicious_tlds, 1, lower(netloc), a0)
      a2 == IF ip_match(netloc)
            THEN bump(a1, 5, "IP address used instead of domain name", <<>>)
            ELSE a1
      a3 == IF count(netloc, ".") > 2
            THEN bump(a2, 3, "Multiple subdomains detected", <<>>)
            ELSE a2
      a4 == IF \E j \in 1..Len(url) : url[j] = "%"
            THEN bump(a3, 3, "URL contains encoded characters", <<>>)
            ELSE a3
  IN [url |-> url, risk_score |-> a4.risk_score, reasons |-> a4.reasons]

\* for url in urls: ...; an exception from urlparse leaves the loop
RECURSIVE url_loop(_, _, _, _)
url_loop(self, urls, k, results) ==
  IF k > Len(urls)
  THEN [self |-> self, raised |-> FALSE, value |-> results]
  ELSE LET parsed_url == urlparse(urls[k])
       IN IF parsed_url.raised
          THEN [self |-> self, raised |-> TRUE, value |-> <<>>]
          ELSE url_loop(self, urls, k + 1,
                        Append(results, url_finding(self, urls[k], parsed_url.netloc)))

\* analyze_urls iterating over the distinct urls only
analyze_urls_dedup(self, text) ==
  LET urls == findall(text, 1)
      firsts == {k \in 1..Len(urls) : \A j \in 1..(k - 1) : urls[j] # urls[k]}
      nth[n \in 1..Cardinality(firsts)] ==
        CHOOSE k \in firsts : Cardinality({j \in firsts : j < k}) = n - 1
  IN url_loop(self, [n \in 1..Cardinality(firsts) |-> urls[nth[n]]], 1, <<>>)

analyze_urls(self, text) ==
  url_loop(self, findall(text, 1), 1, <<>>)

----------------------------------------------------------------------------
(* analyze_keywords                                                        *)

\* for keyword, score in self.suspicious_keywords.items(): ...
RECURSIVE keyword_loop(_, _, _, _)
keyword_loop(table, k, text, acc) ==
  IF k > Len(table)
  THEN acc
  ELSE keyword_loop(table, k + 1, text,
                    IF contains(text, table[k].keyword)
                    THEN [score |-> acc.score + table[k].score,
                          detected_keywords |->
                            Append(acc.detected_keywords, table[k].keyword)]
                    ELSE acc)

\* analyze_keywords without text.lower()
analyze_keywords_cased(self, text) ==
  [self |-> self,
   value |-> keyword_loop(self.suspicious_keywords, 1, text,
                          [score |-> 0, detected_keywords |-> <<>>])]

analyze_keywords(self, text) ==
  [self |-> self,
   value |-> keyword_loop(self.suspicious_keywords, 1, lower(text),
                          [score |-> 0, detected_keywords |-> <<>>])]

----------------------------------------------------------------------------
(* analyze_headers                                                         *)

\* score += w; reasons.append(text)
flag(acc, w, text, arg) ==
  [score |-> acc.score + w, reasons |-> Append(acc.reasons, Reason(text, arg))]

\* pattern_loop leaving the loop at the first match
RECURSIVE pattern_loop_first(_, _, _, _)
pattern_loop_first(patterns, k, sender, acc) ==
  IF k > Len(patterns)
  THEN acc
  ELSE IF re_search(patterns[k], sender)
       THEN flag(acc, 3, "Suspicious sender pattern: ", <<patterns[k].source>>)
       ELSE pattern_loop_first(patterns, k + 1, sender, acc)

\* for pattern in self.suspicious_sender_patterns: if re.search(...): ...
RECURSIVE pattern_loop(_, _, _, _)
pattern_loop(patterns, k, sender, acc) ==
  IF k > Len(patterns)
  THEN acc
  ELSE pattern_loop(patterns, k + 1, sender,
                    IF re_search(patterns[k], sender)
                    THEN flag(acc, 3, "Suspicious sender pattern: ", <<patterns[k].source>>)
                    ELSE acc)

important_headers == <<"received", "authentication-results", "dkim-signature">>

\* for header in important_headers: if header not in headers: ...
RECURSIVE missing_loop(_, _, _)
missing_loop(k, headers, acc) ==
  IF k > Len(important_headers)
  THEN acc
  ELSE missing_loop(k + 1, headers,
                    IF important_headers[k] \notin DOMAIN headers
                    THEN flag(acc, 2, "Missing important header: ", <<important_headers[k]>>)
                    ELSE acc)

\* analyze_headers taking 'from' out of the caller's mapping as it reads it
analyze_headers_consuming(self, headers) ==
  LET a0 == [score |-> 0, reasons |-> <<>>]
      a1 == IF "from" \in DOMAIN headers /\ "reply-to" \in DOMAIN headers
            THEN IF split_last(headers["from"], "@") # split_last(headers["reply-to"], "@")
                 THEN flag(a0, 4, "Reply-To domain mismatch", <<>>)
                 ELSE a0
            ELSE a0
      a2 == IF "from" \in DOMAIN headers
            THEN pattern_loop(self.suspicious_sender_patterns, 1, headers["from"], a1)
            ELSE a1
      a3 == missing_loop(1, headers, a2)
  IN [self |-> self,
      headers |-> [k \in DOMAIN headers \ {"from"} |-> headers[k]],
      value |-> a3]

\* headers is the caller's mapping of header name to value
analyze_headers(self, headers) ==
  LET a0 == [score |-> 0, reasons |-> <<>>]
      a1 == IF "from" \in DOMAIN headers /\ "reply-to" \in DOMAIN headers
            THEN LET from_domain == split_last(headers["from"], "@")
                     reply_domain == split_last(headers["reply-to"], "@")
                 IN IF from_domain # reply_domain
                    THEN flag(a0, 4, "Reply-To domain mismatch", <<>>)
                    ELSE a0
            ELSE a0
      a2 == IF "from" \in DOMAIN headers
            THEN pattern_loop(self.suspicious_sender_patterns, 1, headers["from"], a1)
            ELSE a1
      a3 == missing_loop(1, headers, a2)
  IN [self |-> self, headers |-> headers, value |-> a3]

----------------------------------------------------------------------------
(* analyze_message                                                         *)

\* the headers argument: None, or a mapping
None == [given |-> FALSE, map |-> <<>>]

Mapping(m) == [given |-> TRUE, map |-> m]

\* truth value of the headers argument: None and the empty dict are false
truthy(headers) ==
  headers.given /\ DOMAIN headers.map # {}

\* sum(result['risk_score'] for result in url_results)
RECURSIVE sum_risk(_, _)
sum_risk(url_results, k) ==
  IF k > Len(url_results) THEN 0 ELSE url_results[k].risk_score + sum_risk(url_results, k + 1)

min(a, b) == IF a <= b THEN a ELSE b

\* classify without the clamp
classify_unclamped(total_score, results) ==
  IF total_score >= 7
  THEN [results EXCEPT !.overall_risk_score = total_score,
                       !.risk_level = "High",
                       !.recommendations = Append(@, "Block this message immediately")]
  ELSE IF total_score >= 4
       THEN [results EXCEPT !.overall_risk_score = total_score,
                            !.risk_level = "Medium",
                            !.recommendations =
                               Append(@, "Review message carefully before taking any action")]
       ELSE [results EXCEPT !.overall_risk_score = total_score,
                            !.risk_level = "Low",
                            !.recommendations =
                               Append(@, "Message appears to be legitimate but always exercise caution")]

\* classify with strict comparisons against the thresholds
classify_strict(total_score, results) ==
  LET overall == min(total_score, 10)
  IN IF overall > 7
     THEN [results EXCEPT !.overall_risk_score = overall,
                          !.risk_level = "High",
                          !.recommendations = Append(@, "Block this message immediately")]
     ELSE IF overall > 4
          THEN [results EXCEPT !.overall_risk_score = overall,
                               !.risk_level = "Medium",
                               !.recommendations =
                                  Append(@, "Review message carefully before taking any action")]
          ELSE [results EXCEPT !.overall_risk_score = overall,
                               !.risk_level = "Low",
                               !.recommendations =
                                  Append(@, "Message appears to be legitimate but always exercise caution")]

\* the clamp, the level and the recommendation
classify(total_score, results) ==
  LET overall == min(total_score, 10)
  IN IF overall >= 7
     THEN [results EXCEPT !.overall_risk_score = overall,
                          !.risk_level = "High",
                          !.recommendations =
                             Append(@, "Block this message immediately")]
     ELSE IF overall >= 4
          THEN [results EXCEPT !.overall_risk_score = overall,
                               !.risk_level = "Medium",
                               !.recommendations =
                                  Append(@, "Review message carefully before taking any action")]
          ELSE [results EXCEPT !.overall_risk_score = overall,
                               !.risk_level = "Low",
                               !.recommendations =
                                  Append(@, "Message appears to be legitimate but always exercise caution")]

analyze_message(self, message_text, headers) ==
  LET analysis_results == [overall_risk_score |-> 0,
                           risk_level |-> "",
                           url_analysis |-> <<>>,
                           keyword_analysis |-> <<>>,
                           header_analysis |-> <<>>,
                           recommendations |-> <<>>]
      u == analyze_urls(self, message_text)
  IN IF u.raised
     THEN [self |-> u.self, headers |-> headers, raised |-> TRUE, value |-> <<>>]
     ELSE LET url_score == sum_risk(u.value, 1)
              kw == analyze_keywords(u.self, message_text)
              r1 == [analysis_results EXCEPT !.url_analysis = u.value,
                                             !.keyword_analysis = kw.value]
              t1 == 0 + url_score + kw.value.score
          IN IF truthy(headers)
             THEN LET h == analyze_headers(kw.self, headers.map)
                  IN [self |-> h.self,
                      headers |-> Mapping(h.headers),
                      raised |-> FALSE,
                      value |-> classify(t1 + h.value.score,
                                         [r1 EXCEPT !.header_analysis = h.value])]
             ELSE [self |-> kw.self,
                   headers |-> headers,
                   raised |-> FALSE,
                   value |-> classify(t1, r1)]

\* the detector after __init__
PhishingDetector ==
  [suspicious_keywords |-> suspicious_keywords,
   suspicious_tlds |-> suspicious_tlds,
   suspicious_sender_patterns |-> suspicious_sender_patterns]

----------------------------------------------------------------------------
(* Inputs                                                                  *)

MaxTokens == 3

MaxCalls == 2

\* message texts are built from these fragments
Tokens ==
  << <<"h", "t", "t", "p", ":", "/", "/">>,
     <<"1", ".", "2", ".", "3", ".", "4">>,
     <<" ", "h", "t", "t", "p", "s", ":", "/", "/", "x", ".", "T", "K">>,
     <<" ", "U", "R", "G", "E", "N", "T", " ", "p", "a", "y", "m", "e", "n", "t">>,
     <<"/", "%">>,
     <<"[">> >>

RECURSIVE Join(_)
Join(ixs) ==
  IF ixs = <<>> THEN <<>> ELSE Tokens[Head(ixs)] \o Join(Tail(ixs))

TextsUpTo(n) ==
  {Join(ixs) : ixs \in UNION {[1..k -> 1..Len(Tokens)] : k \in 0..n}}

Texts == TextsUpTo(MaxTokens)

FromValues ==
  { <<"a", "@", "x", ".", "t", "k">>,
    <<"a", "l", "i", "c", "e">>,
    <<"F", "i", "v", "e", "r", "r", "-", "s", "u", "p", "p", "o", "r", "t",
      "1", "2", "3", "4", "@", "x", ".", "t", "k">>,
    <<"1", "2", "@", "x", ".", "t", "k">> }

ReplyValues ==
  { <<"r", "@", "b", "@", "x", ".", "t", "k">>,
    <<"b", "o", "b">>,
    <<"o", "p", "s", "@", "y", ".", "c", "o", "m">>,
    <<"x", ".", "t", "k">> }

OtherValue == <<"o", "k">>

HeaderMaps ==
  {m \in UNION {[K -> FromValues \cup ReplyValues \cup {OtherValue}] :
                   K \in SUBSET {"from", "reply-to", "received",
                                  "authentication-results", "dkim-signature"}} :
     /\ "from" \in DOMAIN m => m["from"] \in FromValues
     /\ "reply-to" \in DOMAIN m => m["reply-to"] \in ReplyValues
     /\ \A k \in DOMAIN m \ {"from", "reply-to"} : m[k] = OtherValue}

AllHeaders == {None} \cup {Mapping(m) : m \in HeaderMaps}

BasicHeaders ==
  {None,
   Mapping(<<>>),
   Mapping([k \in {"from", "reply-to", "received",
                   "authentication-results", "dkim-signature"} |->
              IF k = "from" THEN <<"a", "@", "x", ".", "t", "k">>
              ELSE IF k = "reply-to" THEN <<"o", "p", "s", "@", "y", ".", "c", "o", "m">>
              ELSE OtherValue])}

----------------------------------------------------------------------------
(* One detector and its caller                                             *)

VARIABLES
  detector,      \* the PhishingDetector instance
  message_text,  \* the caller's message
  headers,       \* the caller's headers argument
  op,            \* the method called last
  outcome,       \* "none", "returned" or "raised"
  result,        \* what the last call returned
  first,         \* the outcome of the first analyze_message call, made as call number `at`
  calls          \* number of calls made

vars == <<detector, message_text, headers, op, outcome, result, first, calls>>

Init ==
  /\ detector = PhishingDetector
  /\ \/ message_text \in Texts /\ headers \in BasicHeaders
     \/ message_text = <<>> /\ headers \in AllHeaders
  /\ op = "none"
  /\ outcome = "none"
  /\ result = <<>>
  /\ first = [set |-> FALSE, at |-> 0, raised |-> FALSE, value |-> <<>>]
  /\ calls = 0

AnalyzeUrls ==
  /\ calls < MaxCalls
  /\ \E r \in {analyze_urls(detector, message_text)} :
        /\ detector' = r.self
        /\ outcome' = IF r.raised THEN "raised" ELSE "returned"
        /\ result' = r.value
  /\ op' = "analyze_urls"
  /\ calls' = calls + 1
  /\ UNCHANGED <<message_text, headers, first>>

AnalyzeKeywords ==
  /\ calls < MaxCalls
  /\ \E r \in {analyze_keywords(detector, message_text)} :
        /\ detector' = r.self
        /\ result' = r.value
  /\ outcome' = "returned"
  /\ op' = "analyze_keywords"
  /\ calls' = calls + 1
  /\ UNCHANGED <<message_text, headers, first>>

AnalyzeHeaders ==
  /\ calls < MaxCalls
  /\ headers.given
  /\ \E r \in {analyze_headers(detector, headers.map)} :
        /\ detector' = r.self
        /\ headers' = Mapping(r.headers)
        /\ result' = r.value
  /\ outcome' = "returned"
  /\ op' = "analyze_headers"
  /\ calls' = calls + 1
  /\ UNCHANGED <<message_text, first>>

AnalyzeMessage ==
  /\ calls < MaxCalls
  /\ \E r \in {analyze_message(detector, message_text, headers)} :
        /\ detector' = r.self
        /\ headers' = r.headers
        /\ outcome' = IF r.raised THEN "raised" ELSE "returned"
        /\ result' = r.value
        /\ first' = IF first.set
                    THEN first
                    ELSE [set |-> TRUE, at |-> calls + 1,
                          raised |-> r.raised, value |-> r.value]
  /\ op' = "analyze_message"
  /\ calls' = calls + 1
  /\ UNCHANGED message_text

Next ==
  \/ AnalyzeUrls
  \/ AnalyzeKeywords
  \/ AnalyzeHeaders
  \/ AnalyzeMessage

Spec == Init /\ [][Next]_vars

----------------------------------------------------------------------------
(* Properties                                                              *)

Returned(method) == op = method /\ outcome = "returned"

\* the sum of a sequence of integers
RECURSIVE Total(_)
Total(xs) == IF xs = <<>> THEN 0 ELSE Head(xs) + Total(Tail(xs))

Bit(b) == IF b THEN 1 ELSE 0

\* the reported header score, 0 when header_analysis is the empty list
ReportedHeaderScore(report) ==
  IF DOMAIN report.header_analysis = {} THEN 0 ELSE report.header_analysis.score

ReportedRawTotal(report) ==
  Total([k \in 1..Len(report.url_analysis) |-> report.url_analysis[k].risk_score])
  + report.keyword_analysis.score
  + ReportedHeaderScore(report)

\* C1: the overall_risk_score analyze_message returns is
\* min(url_score + keyword_score + header_score, 1.0) over the reported
\* component scores, and so lies between 0.0 and 1.0.
OverallIsClampedSum ==
  Returned("analyze_message") =>
    /\ result.overall_risk_score = min(ReportedRawTotal(result), 10)
    /\ 0 <= result.overall_risk_score
    /\ result.overall_risk_score <= 10

\* a report whose three components all contribute and whose sum passes 1.0
ClampedReport ==
  /\ Returned("analyze_message")
  /\ result.url_analysis # <<>>
  /\ result.keyword_analysis.score > 0
  /\ ReportedHeaderScore(result) > 0
  /\ ReportedRawTotal(result) > 10
  /\ result.overall_risk_score = 10

\* C2: the level and the single recommendation follow from the clamped
\* score alone: >= 0.7 High, >= 0.4 Medium, else Low, the boundaries
\* belonging to the higher level.
LevelFollowsScore ==
  Returned("analyze_message") =>
    LET score == result.overall_risk_score
    IN /\ score >= 7 =>
            /\ result.risk_level = "High"
            /\ result.recommendations = <<"Block this message immediately">>
       /\ (4 <= score /\ score < 7) =>
            /\ result.risk_level = "Medium"
            /\ result.recommendations =
                 <<"Review message carefully before taking any action">>
       /\ score < 4 =>
            /\ result.risk_level = "Low"
            /\ result.recommendations =
                 <<"Message appears to be legitimate but always exercise caution">>

\* a report whose score is exactly 0.7
BoundaryReport ==
  /\ Returned("analyze_message")
  /\ result.overall_risk_score = 7
  /\ result.risk_level = "High"

\* C3: whenever a header mapping is provided, whatever it holds, the
\* header analyzer runs on it and its result is reported in header_analysis
\* and added to the total.
ProvidedHeadersAnalyzed ==
  (Returned("analyze_message") /\ headers.given) =>
    /\ DOMAIN result.header_analysis # {}
    /\ result.header_analysis = analyze_headers(detector, headers.map).value

\* C4: analyze_message never raises.
NeverRaises ==
  op = "analyze_message" => outcome = "returned"

\* what follows the last '@' of a value, empty when the value has no '@'
DomainOrEmpty(value) ==
  LET ats == {i \in 1..Len(value) : value[i] = "@"}
  IN IF ats = {}
     THEN <<>>
     ELSE SubSeq(value, (CHOOSE i \in ats : \A j \in ats : j <= i) + 1, Len(value))

MismatchRecorded(reasons) ==
  \E k \in 1..Len(reasons) : reasons[k].text = "Reply-To domain mismatch"

\* C5: in the Reply-To check a value without '@' has an empty domain, so
\* the mismatch is recorded exactly when the domains so defined differ.
MissingAtIsEmptyDomain ==
  (Returned("analyze_headers")
     /\ "from" \in DOMAIN headers.map /\ "reply-to" \in DOMAIN headers.map) =>
    (MismatchRecorded(result.reasons)
       <=> DomainOrEmpty(headers.map["from"]) # DomainOrEmpty(headers.map["reply-to"]))

\* C6: no call changes the rule tables or the caller's header mapping, and
\* an analyze_message call repeated on the same inputs ends as the first did.
Idempotent ==
  [][/\ detector' = detector
     /\ headers' = headers
     /\ (op' = "analyze_message" /\ first.set) =>
          /\ (outcome' = "raised") = first.raised
          /\ result' = first.value]_vars

\* a later analyze_message call, with headers analyzed, has returned
RepeatedCall ==
  /\ Returned("analyze_message")
  /\ first.set
  /\ first.at < calls
  /\ truthy(headers)
  /\ result.url_analysis # <<>>

\* what follows the last '@' of a value, the whole value when it has no '@'
DomainOf(value) ==
  LET ats == {i \in 1..Len(value) : value[i] = "@"}
  IN IF ats = {}
     THEN value
     ELSE SubSeq(value, (CHOOSE i \in ats : \A j \in ats : j <= i) + 1, Len(value))

DomainsDiffer(h) ==
  /\ "from" \in DOMAIN h
  /\ "reply-to" \in DOMAIN h
  /\ DomainOf(h["from"]) # DomainOf(h["reply-to"])

MatchingPatterns(h) ==
  IF "from" \in DOMAIN h
  THEN {k \in 1..Len(detector.suspicious_sender_patterns) :
          re_search(detector.suspicious_sender_patterns[k], h["from"])}
  ELSE {}

MissingHeaders(h) ==
  {"received", "authentication-results", "dkim-signature"} \ DOMAIN h

IsDottedQuad(domain) ==
  LET dots == {i \in 1..Len(domain) : domain[i] = "."}
  IN /\ Cardinality(dots) = 3
     /\ \A i \in 1..Len(domain) : i \notin dots => domain[i] \in Digits
     /\ 1 \notin dots
     /\ Len(domain) \notin dots
     /\ \A i \in dots : i + 1 \notin dots

MatchingTlds(domain) ==
  {k \in 1..Len(detector.suspicious_tlds) :
     endswith(lower(domain), detector.suspicious_tlds[k])}

\* the increments a url earns
UrlIncrements(url) ==
  LET domain == urlparse(url).netloc
  IN [tlds |-> Cardinality(MatchingTlds(domain)),
      ip |-> Bit(IsDottedQuad(domain)),
      dots |-> Bit(count(domain, ".") > 2),
      pct |-> Bit(\E j \in 1..Len(url) : url[j] = "%")]

\* C8: analyze_urls returns one finding per url occurrence, in order and
\* without deduplication, each scored 0.4 per matching suffix, 0.5 for a
\* dotted quad, 0.3 for more than two dots and 0.3 for a '%', unclamped,
\* with as many reasons as increments.
FindingPerOccurrence ==
  Returned("analyze_urls") =>
    LET urls == findall(message_text, 1)
    IN /\ Len(result) = Len(urls)
       /\ \A k \in 1..Len(urls) :
            LET inc == UrlIncrements(urls[k])
            IN /\ result[k].url = urls[k]
               /\ result[k].risk_score =
                    4 * inc.tlds + 5 * inc.ip + 3 * inc.dots + 3 * inc.pct
               /\ Len(result[k].reasons) = inc.tlds + inc.ip + inc.dots + inc.pct

\* the same url found twice gives two equal findings
RepeatedUrl ==
  /\ Returned("analyze_urls")
  /\ Len(result) = 2
  /\ result[1].url = result[2].url
  /\ result[1].risk_score = 4
  /\ result[2].risk_score = 4

\* C9: analyze_keywords adds the weight of exactly the table phrases that
\* occur in the lower-cased text, each once, and lists them in table order.
KeywordsCountedOnce ==
  Returned("analyze_keywords") =>
    LET table == detector.suspicious_keywords
        text == lower(message_text)
        hits == {k \in 1..Len(table) : contains(text, table[k].keyword)}
        listed == result.detected_keywords
    IN /\ result.score = Total([k \in 1..Len(table) |->
                                  IF k \in hits THEN table[k].score ELSE 0])
       /\ Len(listed) = Cardinality(hits)
       /\ \A i \in 1..Len(listed) :
            \E k \in hits :
              /\ listed[i] = table[k].keyword
              /\ Cardinality({j \in hits : j < k}) = i - 1
       /\ message_text = <<>> => (result.score = 0 /\ listed = <<>>)

\* an upper-case phrase occurring twice, inside a longer phrase of the table
PhraseTwice ==
  /\ Returned("analyze_keywords")
  /\ Cardinality({i \in 1..Len(message_text) :
                    i + 5 <= Len(message_text)
                    /\ SubSeq(message_text, i, i + 5) = <<"U", "R", "G", "E", "N", "T">>}) = 2
  /\ result.score = 9
  /\ Len(result.detected_keywords) = 2

HasReason(finding, text) ==
  \E k \in 1..Len(finding.reasons) : finding.reasons[k].text = text

\* C10: a finding for a dotted-quad domain always carries the subdomain
\* increment too, so it scores at least 0.8, and a message holding such a
\* url is classified High.
IpNeverAlone ==
  /\ Returned("analyze_urls") =>
       \A k \in 1..Len(result) :
         (IsDottedQuad(urlparse(result[k].url).netloc)
            \/ HasReason(result[k], "IP address used instead of domain name")) =>
           /\ HasReason(result[k], "Multiple subdomains detected")
           /\ result[k].risk_score >= 8
  /\ Returned("analyze_message") =>
       ((\E k \in 1..Len(result.url_analysis) :
           IsDottedQuad(urlparse(result.url_analysis[k].url).netloc))
          => result.risk_level = "High")

\* a message with a dotted-quad url, no keyword and no headers
IpOnlyMessage ==
  /\ Returned("analyze_message")
  /\ ~headers.given
  /\ result.keyword_analysis.score = 0
  /\ Len(result.url_analysis) = 1
  /\ IsDottedQuad(urlparse(result.url_analysis[1].url).netloc)
  /\ result.url_analysis[1].risk_score = 8
  /\ result.risk_level = "High"

====
